---- MODULE Spec2Model ----
(***************************************************************************)
(* Expense tracker.  Backend: the Income and Expense collections, the add, *)
(* list, delete and Excel handlers of incomeController.js and              *)
(* expenseController.js, the dashboard aggregation getDashboardData, the   *)
(* protect middleware in front of every route, and the /ai-categorize      *)
(* route with the categorizeExpense service.  Client: the                  *)
(* useAICategorization hook and the AddExpenseForm that calls it, and the  *)
(* Income and Expense pages with their add handlers and list fetches.      *)
(* The variable dash holds getDashboardData between its queries, so that   *)
(* other requests can run between two of its reads.                        *)
(*                                                                         *)
(* Time is counted in days: Date.now() is the variable now, a stored date  *)
(* is a positive integer, and 0 stands for a date the request left out.    *)
(* Amounts are integers (minor currency units); an amount of 0 stands for  *)
(* every falsy amount of a request body.  The icon field is carried by no  *)
(* computation of the backend and is left out of the records.              *)
(*                                                                         *)
(* A collection is the sequence of its documents in insertion order.       *)
(* find().sort({date: -1}) orders by date descending; documents with equal *)
(* dates are returned in collection order.                                 *)
(***************************************************************************)
EXTENDS Integers, Sequences, FiniteSets, TLC

VARIABLES incomes, expenses, nextIncomeId, nextExpenseId, now, response,
          hfCalls, xlsxFiles,
          expense, suggestedCategory, loading, error, calls,
          pages, toast, requests,
          dash

vars == <<incomes, expenses, nextIncomeId, nextExpenseId, now, response,
          hfCalls, xlsxFiles,
          expense, suggestedCategory, loading, error, calls,
          pages, toast, requests,
          dash>>

store == <<incomes, expenses, nextIncomeId, nextExpenseId>>

\* the classification service as the server uses it, and the server's files
services == <<hfCalls, xlsxFiles>>

\* the state of the client's AddExpenseForm and of its useAICategorization
form == <<expense, suggestedCategory, loading, error, calls>>

\* the state of the client's Income and Expense pages (pages), the toast
\* last shown, and the requests of the pages that are in flight
page == <<pages, toast, requests>>

\* dash is the getDashboardData request that is between its reads of the
\* store, when the reads are taken one at a time

----------------------------------------------------------------------------
(* Program constants *)

ThirtyDays == 30

\* result.confidence > 0.7, in hundredths
ConfidenceThreshold == 70

\* description.length > 5
MinDescriptionLength == 5

\* description.trim().length < 3
MinTrimmedLength == 3

SixtyDays == 60

RecentLimit == 5

----------------------------------------------------------------------------
(* Bounds of the model *)

MaxAdds == 3

MaxTicks == 1

MaxFeedIncomes == 6

MaxFeedExpenses == 2

MaxScenarioAdds == 4

MaxListAdds == 3

MaxAuthAdds == 2

MaxHfCalls == 1

MaxDescLen == 6

MaxFormCalls == 2
MaxLiveCalls == 2
MaxPageAdds == 2
MaxDashAdds == 2

Users == {"A", "B"}

\* useState(null) of the hook's error
NoError == "null"

Now0 == SixtyDays + ThirtyDays

MaxNow == Now0 + MaxTicks

Min(a, b) == IF a <= b THEN a ELSE b

----------------------------------------------------------------------------
(* Mongoose query operators *)

Front(s) == SubSeq(s, 1, Len(s) - 1)

Last(s) == s[Len(s)]

\* Model.find({}): the query without its userId condition
FindAnyUser(coll, userId) == coll

\* Model.find({ userId }): the user's documents, in collection order
FindByUser(coll, userId) == SelectSeq(coll, LAMBDA doc : doc.userId = userId)

\* the filter with $gt in place of $gte
DateGt(date, cutoff) == date > cutoff

\* the filter  date: { $gte: cutoff }
DateGte(date, cutoff) == date >= cutoff

\* Model.find({ userId, date: { $gte: cutoff } })
FindByUserSince(coll, userId, cutoff) ==
    SelectSeq(coll, LAMBDA doc : doc.userId = userId /\ DateGte(doc.date, cutoff))

\* the sort key order of .sort({ date: 1 })
DateAscKey(a, b) == a.date <= b.date

\* the sort key order of .sort({ date: -1 }): a stays in front of b
DateDescKey(a, b) == a.date >= b.date

\* insert doc into a sorted sequence, behind every document that stays in
\* front of it
RECURSIVE InsertByDateDesc(_, _)
InsertByDateDesc(sorted, doc) ==
    IF sorted = <<>> THEN <<doc>>
    ELSE IF DateDescKey(Last(sorted), doc)
         THEN Append(sorted, doc)
         ELSE Append(InsertByDateDesc(Front(sorted), doc), Last(sorted))

\* the query without its sort
SortSkipped(docs) == docs

\* query.sort({ date: -1 })
RECURSIVE SortDateDesc(_)
SortDateDesc(docs) ==
    IF docs = <<>> THEN <<>>
    ELSE InsertByDateDesc(SortDateDesc(Front(docs)), Last(docs))

\* the query without its limit
LimitIgnored(docs, n) == docs

\* query.limit(n)
Limit(docs, n) == SubSeq(docs, 1, Min(n, Len(docs)))

\* { $group: { _id: null, total: { $sum: "$amount" } } } over a sequence
RECURSIVE SumAmount(_)
SumAmount(docs) ==
    IF docs = <<>> THEN 0 ELSE SumAmount(Front(docs)) + Last(docs).amount

\* an aggregation without its $match stage
MatchAnyUser(coll, userObjectId) == coll

\* the $match stage of the aggregation
Match(coll, userObjectId) == FindByUser(coll, userObjectId)

\* Model.aggregate([{ $match }, { $group }]): no group when nothing matches
Aggregate(coll, userObjectId) ==
    LET matched == Match(coll, userObjectId)
    IN  IF matched = <<>> THEN <<>>
        ELSE <<[_id |-> "null", total |-> SumAmount(matched)]>>

\* a delete that removes the document at position id of the collection
DeleteAtPosition(coll, id) ==
    IF id \in 1..Len(coll)
    THEN SubSeq(coll, 1, id - 1) \o SubSeq(coll, id + 1, Len(coll))
    ELSE coll

\* a delete whose filter matches every id up to the one given
FindUpToIdAndDelete(coll, id) == SelectSeq(coll, LAMBDA doc : doc._id > id)

\* Model.findByIdAndDelete(id): no ownership filter, no-op on an unknown id
FindByIdAndDelete(coll, id) == SelectSeq(coll, LAMBDA doc : doc._id # id)

----------------------------------------------------------------------------
(* dashboardController.js *)

\* totals[0]?.total || 0
TotalOrZero(totals) ==
    IF totals = <<>> THEN 0
    ELSE IF totals[1].total = 0 THEN 0 ELSE totals[1].total

\* the two totals added
TotalBalanceAdded(totalIncome, totalExpense) ==
    TotalOrZero(totalIncome) + TotalOrZero(totalExpense)

\* (totalIncome[0]?.total || 0) - (totalExpense[0]?.total || 0)
TotalBalance(totalIncome, totalExpense) ==
    TotalOrZero(totalIncome) - TotalOrZero(totalExpense)

\* a reducer that returns the amount in place of the running sum
RECURSIVE ReduceAmountNotAccumulated(_, _)
ReduceAmountNotAccumulated(transactions, sum) ==
    IF transactions = <<>> THEN sum
    ELSE ReduceAmountNotAccumulated(Tail(transactions), Head(transactions).amount)

\* transactions.reduce((sum, transaction) => sum + transaction.amount, 0)
RECURSIVE ReduceAmount(_, _)
ReduceAmount(transactions, sum) ==
    IF transactions = <<>> THEN sum
    ELSE ReduceAmount(Tail(transactions), sum + Head(transactions).amount)

\* .map((txn) => ({ ...txn.toObject(), type }))
TagType(docs, type) ==
    [i \in 1..Len(docs) |-> [type |-> type] @@ docs[i]]

\* the comparator (a, b) => a.date - b.date
CompareDateAscending(a, b) == a.date - b.date

\* the comparator (a, b) => b.date - a.date
CompareDate(a, b) == b.date - a.date

\* a sort that is not stable: an element moves in front of its equals
RECURSIVE InsertByCompareInFront(_, _)
InsertByCompareInFront(sorted, txn) ==
    IF sorted = <<>> THEN <<txn>>
    ELSE IF CompareDate(Last(sorted), txn) < 0
         THEN Append(sorted, txn)
         ELSE Append(InsertByCompareInFront(Front(sorted), txn), Last(sorted))

\* Array.prototype.sort with the comparator: a stable sort, an element moves
\* in front of another only when the comparator is positive
RECURSIVE InsertByCompare(_, _)
InsertByCompare(sorted, txn) ==
    IF sorted = <<>> THEN <<txn>>
    ELSE IF CompareDate(Last(sorted), txn) <= 0
         THEN Append(sorted, txn)
         ELSE Append(InsertByCompare(Front(sorted), txn), Last(sorted))

RECURSIVE ArraySort(_)
ArraySort(txns) ==
    IF txns = <<>> THEN <<>>
    ELSE InsertByCompare(ArraySort(Front(txns)), Last(txns))

\* the query with the limit applied before the sort
FirstFiveInserted(coll, userId) ==
    SortDateDesc(Limit(FindByUser(coll, userId), RecentLimit))

\* Model.find({ userId }).sort({ date: -1 }).limit(5)
LastFive(coll, userId) == Limit(SortDateDesc(FindByUser(coll, userId)), RecentLimit)

\* lastTransactions kept across requests: the entries of the previous
\* summary are still in the array
LastTransactionsAccumulated(userId) ==
    ArraySort((IF response.op = "dashboard"
               THEN response.body.recentTransactions ELSE <<>>)
              \o TagType(LastFive(incomes, userId), "income")
              \o TagType(LastFive(expenses, userId), "expense"))

\* lastTransactions
LastTransactions(userId) ==
    ArraySort(TagType(LastFive(incomes, userId), "income")
              \o TagType(LastFive(expenses, userId), "expense"))

\* new Date(Date.now() - 60 * 24 * 60 * 60 * 1000)
IncomeCutoff == now - SixtyDays

\* the expense window cut at 60 days
ExpenseCutoffSixtyDays == now - SixtyDays

\* new Date(Date.now() - 30 * 24 * 60 * 60 * 1000)
ExpenseCutoff == now - ThirtyDays

DashboardBody(userId) ==
    LET totalIncome == Aggregate(incomes, userId)
        totalExpense == Aggregate(expenses, userId)
        last60DaysIncomeTransactions ==
            SortDateDesc(FindByUserSince(incomes, userId, IncomeCutoff))
        incomeLast60Days == ReduceAmount(last60DaysIncomeTransactions, 0)
        last30DaysExpenseTransactions ==
            SortDateDesc(FindByUserSince(expenses, userId, ExpenseCutoff))
        expensesLast30Days == ReduceAmount(last30DaysExpenseTransactions, 0)
    IN  [totalBalance |-> TotalBalance(totalIncome, totalExpense),
         totalIncome |-> TotalOrZero(totalIncome),
         totalExpenses |-> TotalOrZero(totalExpense),
         last30DaysExpenses |-> [total |-> expensesLast30Days,
                                 transactions |-> last30DaysExpenseTransactions],
         last60DaysIncome |-> [total |-> incomeLast60Days,
                               transactions |-> last60DaysIncomeTransactions],
         recentTransactions |-> LastTransactions(userId)]

\* GET /api/v1/dashboard
getDashboardData(userId) ==
    /\ response' = [op |-> "dashboard", user |-> userId, now |-> now,
                    status |-> 200, body |-> DashboardBody(userId)]
    /\ UNCHANGED <<incomes, expenses, nextIncomeId, nextExpenseId, now, services, form>>

----------------------------------------------------------------------------
(* incomeController.js, expenseController.js *)

\* !source && !amount && !date
MissingEveryField(label, amount, date) == label = "" /\ amount = 0 /\ date = 0

\* !source || !amount || !date   (resp. !category)
MissingField(label, amount, date) == label = "" \/ amount = 0 \/ date = 0

\* POST /api/v1/income/add
addIncome(userId, body) ==
    /\ IF MissingField(body.source, body.amount, body.date)
       THEN /\ response' = [op |-> "addIncome", status |-> 400,
                            body |-> [message |-> "All fields are required"]]
            /\ UNCHANGED <<incomes, nextIncomeId>>
       ELSE LET newIncome == [_id |-> nextIncomeId, userId |-> userId,
                              source |-> body.source, amount |-> body.amount,
                              date |-> body.date]
            IN  /\ incomes' = Append(incomes, newIncome)
                /\ nextIncomeId' = nextIncomeId + 1
                /\ response' = [op |-> "addIncome", status |-> 200,
                                body |-> newIncome]
    /\ UNCHANGED <<expenses, nextExpenseId, now, services, form>>

\* POST /api/v1/expense/add
addExpense(userId, body) ==
    /\ IF MissingField(body.category, body.amount, body.date)
       THEN /\ response' = [op |-> "addExpense", status |-> 400,
                            body |-> [message |-> "All fields are required"]]
            /\ UNCHANGED <<expenses, nextExpenseId>>
       ELSE LET newExpense == [_id |-> nextExpenseId, userId |-> userId,
                               category |-> body.category, amount |-> body.amount,
                               date |-> body.date]
            IN  /\ expenses' = Append(expenses, newExpense)
                /\ nextExpenseId' = nextExpenseId + 1
                /\ response' = [op |-> "addExpense", status |-> 200,
                                body |-> newExpense]
    /\ UNCHANGED <<incomes, nextIncomeId, now, services, form>>

\* DELETE /api/v1/income/:id
deleteIncome(userId, id) ==
    /\ incomes' = FindByIdAndDelete(incomes, id)
    /\ response' = [op |-> "deleteIncome", status |-> 200,
                    body |-> [message |-> "Income deleted successfully"]]
    /\ UNCHANGED <<expenses, nextIncomeId, nextExpenseId, now, services, form>>

\* DELETE /api/v1/expense/:id
deleteExpense(userId, id) ==
    /\ expenses' = FindByIdAndDelete(expenses, id)
    /\ response' = [op |-> "deleteExpense", status |-> 200,
                    body |-> [message |-> "Expense deleted successfully"]]
    /\ UNCHANGED <<incomes, nextIncomeId, nextExpenseId, now, services, form>>

----------------------------------------------------------------------------
(* The clock read by Date.now() *)

Tick ==
    /\ now < MaxNow
    /\ now' = now + 1
    /\ UNCHANGED <<incomes, expenses, nextIncomeId, nextExpenseId, response,
                   services, form, page, dash>>

----------------------------------------------------------------------------
(* Specification: requests of two users served one at a time; the bodies   *)
(* put dates on both sides of the two window cutoffs.                      *)

Kinds == {"income", "expense"}

\* useState([]), useState(false), useState(false) of Income.jsx and
\* Expense.jsx; mounted tells that the page has been opened
InitialPage ==
    [mounted |-> FALSE, data |-> <<>>, loading |-> FALSE, openAddModal |-> FALSE]

NoToast == ""

\* no getDashboardData request is between its reads
NoDashboard == [pc |-> 0]

Init ==
    /\ incomes = <<>>
    /\ expenses = <<>>
    /\ nextIncomeId = 1
    /\ nextExpenseId = 1
    /\ now = Now0
    /\ response = [op |-> "none"]
    /\ hfCalls = 0
    /\ xlsxFiles = {}
    /\ expense = [category |-> "", amount |-> "", date |-> "", icon |-> "",
                  description |-> <<>>]
    /\ suggestedCategory = ""
    /\ loading = FALSE
    /\ error = NoError
    /\ calls = <<>>
    /\ pages = [kind \in Kinds |-> InitialPage]
    /\ toast = NoToast
    /\ requests = <<>>
    /\ dash = NoDashboard

Fields ==
    { [amount |-> 2, date |-> Now0 - SixtyDays],
      [amount |-> -2, date |-> Now0 - ThirtyDays],
      [amount |-> 5, date |-> Now0 - ThirtyDays - 1],
      [amount |-> 0, date |-> Now0 - ThirtyDays] }

IncomeBodies == { [source |-> "Salary"] @@ f : f \in Fields }

ExpenseBodies == { [category |-> "Rent"] @@ f : f \in Fields }

AddsLeft == (nextIncomeId - 1) + (nextExpenseId - 1) < MaxAdds

Ids == 1..MaxAdds

AddIncomeRequest ==
    /\ UNCHANGED <<page, dash>>
    /\ \E u \in Users, b \in IncomeBodies : AddsLeft /\ addIncome(u, b)

AddExpenseRequest ==
    /\ UNCHANGED <<page, dash>>
    /\ \E u \in Users, b \in ExpenseBodies : AddsLeft /\ addExpense(u, b)

DeleteIncomeRequest ==
    /\ UNCHANGED <<page, dash>>
    /\ \E u \in Users, id \in Ids : deleteIncome(u, id)

DeleteExpenseRequest ==
    /\ UNCHANGED <<page, dash>>
    /\ \E u \in Users, id \in Ids : deleteExpense(u, id)

DashboardRequest ==
    /\ UNCHANGED <<page, dash>>
    /\ \E u \in Users : getDashboardData(u)

Next ==
    \/ AddIncomeRequest
    \/ AddExpenseRequest
    \/ DeleteIncomeRequest
    \/ DeleteExpenseRequest
    \/ DashboardRequest
    \/ Tick

Spec == Init /\ [][Next]_vars

----------------------------------------------------------------------------
(* Specification of the recent-transactions feed: many records per kind.   *)
(* User A adds records of two dates, so that equal dates occur within and  *)
(* across the kinds, user B records of one date.  The store contents are   *)
(* built by add requests alone.                                            *)

FeedFields ==
    { [userId |-> "A", amount |-> 2, date |-> Now0 - 1],
      [userId |-> "A", amount |-> 2, date |-> Now0 - 2],
      [userId |-> "B", amount |-> 2, date |-> Now0 - 1] }

FeedAddIncome ==
    /\ UNCHANGED <<page, dash>>
    /\ \E f \in FeedFields :
           /\ Len(incomes) < MaxFeedIncomes
           /\ addIncome(f.userId,
                        [source |-> "Salary", amount |-> f.amount, date |-> f.date])

FeedAddExpense ==
    /\ UNCHANGED <<page, dash>>
    /\ \E f \in FeedFields :
           /\ Len(expenses) < MaxFeedExpenses
           /\ addExpense(f.userId,
                         [category |-> "Rent", amount |-> f.amount, date |-> f.date])

FeedDashboard ==
    /\ UNCHANGED <<page, dash>>
    /\ \E u \in Users : getDashboardData(u)

NextFeed ==
    \/ FeedAddIncome
    \/ FeedAddExpense
    \/ FeedDashboard

SpecFeed == Init /\ [][NextFeed]_vars

----------------------------------------------------------------------------
(* Specification of the end-to-end scenario: the four records of the       *)
(* scenario, added and deleted in any order by either user; day-0 is Now0. *)

ScenarioIncomeBodies ==
    { [source |-> "Salary", amount |-> 5000, date |-> Now0 - 1],
      [source |-> "Freelance", amount |-> 1500, date |-> Now0 - 20] }

ScenarioExpenseBodies ==
    { [category |-> "Rent", amount |-> 1200, date |-> Now0 - 2],
      [category |-> "Food", amount |-> 300, date |-> Now0 - 35] }

ScenarioAddsLeft == (nextIncomeId - 1) + (nextExpenseId - 1) < MaxScenarioAdds

ScenarioIds == 1..MaxScenarioAdds

ScenarioAddIncome ==
    /\ UNCHANGED <<page, dash>>
    /\ \E u \in Users, b \in ScenarioIncomeBodies : ScenarioAddsLeft /\ addIncome(u, b)

ScenarioAddExpense ==
    /\ UNCHANGED <<page, dash>>
    /\ \E u \in Users, b \in ScenarioExpenseBodies : ScenarioAddsLeft /\ addExpense(u, b)

ScenarioDeleteIncome ==
    /\ UNCHANGED <<page, dash>>
    /\ \E u \in Users, id \in ScenarioIds : deleteIncome(u, id)

ScenarioDeleteExpense ==
    /\ UNCHANGED <<page, dash>>
    /\ \E u \in Users, id \in ScenarioIds : deleteExpense(u, id)

ScenarioDashboard ==
    /\ UNCHANGED <<page, dash>>
    /\ \E u \in Users : getDashboardData(u)

ScenarioTick == Tick

NextScenario ==
    \/ ScenarioAddIncome
    \/ ScenarioAddExpense
    \/ ScenarioDeleteIncome
    \/ ScenarioDeleteExpense
    \/ ScenarioDashboard
    \/ ScenarioTick

SpecScenario == Init /\ [][NextScenario]_vars

----------------------------------------------------------------------------
(* Properties of the summary.  A response of getDashboardData is the       *)
(* response of the last request served, so the store is the one the        *)
(* summary was computed from; response.now is the clock it was computed at.*)

IsSummary == response.op = "dashboard"

Range(s) == { s[i] : i \in 1..Len(s) }

\* the user's documents of a collection, as a set
Owned(coll, userId) == { doc \in Range(coll) : doc.userId = userId }

RECURSIVE SetSum(_)
SetSum(docs) ==
    IF docs = {} THEN 0
    ELSE LET doc == CHOOSE d \in docs : TRUE
         IN  doc.amount + SetSum(docs \ {doc})

Other(userId) == CHOOSE u \in Users : u # userId

\* C1: in every summary totalBalance = totalIncome - totalExpenses, also
\* when the owner has no record of one or of both kinds.
C1_BalanceIsIncomeMinusExpenses ==
    IsSummary =>
        response.body.totalBalance =
            response.body.totalIncome - response.body.totalExpenses

\* a summary of an owner holding both kinds, with totals that do not cancel
C1_Witness ==
    /\ IsSummary
    /\ Owned(incomes, response.user) # {}
    /\ Owned(expenses, response.user) # {}
    /\ response.body.totalIncome # 0
    /\ response.body.totalExpenses # 0
    /\ response.body.totalBalance # 0

\* C2: the totals of a summary are the sums of amount over exactly the
\* owner's Income and Expense records in the store after the adds and
\* deletes served so far, and 0 when the owner has no record of the kind.
C2_TotalsAreSumsOverStore ==
    IsSummary =>
        /\ response.body.totalIncome = SetSum(Owned(incomes, response.user))
        /\ response.body.totalExpenses = SetSum(Owned(expenses, response.user))
        /\ Owned(incomes, response.user) = {} => response.body.totalIncome = 0
        /\ Owned(expenses, response.user) = {} => response.body.totalExpenses = 0

\* a summary after an add of each user and a delete: the owner has income,
\* the other user has income of a non-zero sum, the owner has no expense
C2_Witness ==
    /\ IsSummary
    /\ Len(incomes) < nextIncomeId - 1
    /\ Owned(incomes, response.user) # {}
    /\ SetSum(Owned(incomes, Other(response.user))) # 0
    /\ Owned(expenses, response.user) = {}
    /\ response.body.totalIncome # 0

\* C3: the window lists of a summary hold exactly the owner's Expense
\* records dated at or after now - 30 days and exactly the owner's Income
\* records dated at or after now - 60 days, each record once.
C3_WindowsHoldExactlyRecordsSinceCutoff ==
    IsSummary =>
        LET exp == response.body.last30DaysExpenses.transactions
            inc == response.body.last60DaysIncome.transactions
        IN  /\ Range(exp) = { doc \in Owned(expenses, response.user) :
                                doc.date >= response.now - ThirtyDays }
            /\ Cardinality(Range(exp)) = Len(exp)
            /\ Range(inc) = { doc \in Owned(incomes, response.user) :
                                doc.date >= response.now - SixtyDays }
            /\ Cardinality(Range(inc)) = Len(inc)

\* a summary of an owner with an expense dated exactly at the cutoff (listed)
\* and one dated one day before it (not listed), while the other user holds
\* an expense inside the window
C3_Witness ==
    /\ IsSummary
    /\ \E doc \in Owned(expenses, response.user) :
          /\ doc.date = response.now - ThirtyDays
          /\ doc \in Range(response.body.last30DaysExpenses.transactions)
    /\ \E doc \in Owned(expenses, response.user) :
          /\ doc.date = response.now - ThirtyDays - 1
          /\ doc \notin Range(response.body.last30DaysExpenses.transactions)
    /\ \E doc \in Owned(expenses, Other(response.user)) :
          doc.date >= response.now - ThirtyDays

\* the sum of amount over the entries of a list
RECURSIVE ListSum(_, _)
ListSum(list, n) == IF n = 0 THEN 0 ELSE list[n].amount + ListSum(list, n - 1)

\* C4: in every summary each window total is the sum of amount over the
\* window's transactions, 0 for an empty list.
C4_WindowTotalsAreSumsOfLists ==
    IsSummary =>
        LET exp == response.body.last30DaysExpenses
            inc == response.body.last60DaysIncome
        IN  /\ exp.total = ListSum(exp.transactions, Len(exp.transactions))
            /\ inc.total = ListSum(inc.transactions, Len(inc.transactions))
            /\ exp.transactions = <<>> => exp.total = 0
            /\ inc.transactions = <<>> => inc.total = 0

\* a summary with two incomes of different amounts in the 60-day window and
\* an empty 30-day window
C4_Witness ==
    /\ IsSummary
    /\ Len(response.body.last60DaysIncome.transactions) >= 2
    /\ \E i, j \in 1..Len(response.body.last60DaysIncome.transactions) :
          response.body.last60DaysIncome.transactions[i].amount #
              response.body.last60DaysIncome.transactions[j].amount
    /\ response.body.last60DaysIncome.total # 0
    /\ response.body.last30DaysExpenses.transactions = <<>>

----------------------------------------------------------------------------
(* Properties of recentTransactions *)

Recent == response.body.recentTransactions

\* the entries of the feed that carry a given tag, in feed order
EntriesOfType(type) == SelectSeq(Recent, LAMBDA txn : txn.type = type)

\* C5: recentTransactions is sorted non-increasing by date, whatever the mix
\* of Income and Expense records.
C5_RecentSortedByDateDescending ==
    IsSummary =>
        \A i \in 1..(Len(Recent) - 1) : Recent[i].date >= Recent[i + 1].date

\* a feed of both kinds in which an expense lies between two incomes of
\* different dates
C5_Witness ==
    /\ IsSummary
    /\ \E i, j, k \in 1..Len(Recent) :
          /\ i < j /\ j < k
          /\ Recent[i].type = "income"
          /\ Recent[j].type = "expense"
          /\ Recent[k].type = "income"
          /\ Recent[i].date > Recent[k].date

\* C6 as stated: the length of recentTransactions is
\* min(10, incomeCount + expenseCount).
C6_LengthIsMinOfTenAndCount ==
    IsSummary =>
        Len(Recent) = Min(2 * RecentLimit,
                          Cardinality(Owned(incomes, response.user))
                          + Cardinality(Owned(expenses, response.user)))

\* C6 amended: the length of recentTransactions is
\* min(5, incomeCount) + min(5, expenseCount).
C6_LengthIsSumOfLimitedCounts ==
    IsSummary =>
        Len(Recent) = Min(RecentLimit, Cardinality(Owned(incomes, response.user)))
                      + Min(RecentLimit, Cardinality(Owned(expenses, response.user)))

\* a summary of an owner with more than 5 incomes and fewer than 5 expenses
C6_Witness ==
    /\ IsSummary
    /\ Cardinality(Owned(incomes, response.user)) > RecentLimit
    /\ Cardinality(Owned(expenses, response.user)) \in 1..(RecentLimit - 1)
    /\ Len(Recent) = RecentLimit + Cardinality(Owned(expenses, response.user))

\* C7: entries of equal date keep the order of the concatenation: an
\* Income-tagged entry precedes an Expense-tagged entry of the same date,
\* and the entries of one kind stay in the order their query returned them.
C7_EqualDatesKeepConcatenationOrder ==
    IsSummary =>
        /\ \A i, j \in 1..Len(Recent) :
              (i < j /\ Recent[i].date = Recent[j].date)
                  => ~(Recent[i].type = "expense" /\ Recent[j].type = "income")
        /\ EntriesOfType("income")
              = TagType(LastFive(incomes, response.user), "income")
        /\ EntriesOfType("expense")
              = TagType(LastFive(expenses, response.user), "expense")

\* a feed with two incomes and two expenses, all of one date
C7_Witness ==
    /\ IsSummary
    /\ \E i \in 1..(Len(Recent) - 3) :
          /\ Recent[i].type = "income" /\ Recent[i + 1].type = "income"
          /\ Recent[i + 2].type = "expense" /\ Recent[i + 3].type = "expense"
          /\ Recent[i].date = Recent[i + 3].date

\* the records of a kind that an entry-set of the feed stands for
Listed(kind, type) ==
    { doc \in Owned(kind, response.user) :
        \E i \in 1..Len(Recent) : Recent[i] = [type |-> type] @@ doc }

\* the feed holds min(5, n) of the owner's n records of a kind, tagged with
\* the kind, none of them older than a record of the kind it leaves out
HoldsMostRecent(kind, type) ==
    /\ \A i \in 1..Len(Recent) :
          Recent[i].type = type =>
              \E doc \in Owned(kind, response.user) :
                  Recent[i] = [type |-> type] @@ doc
    /\ Cardinality(Listed(kind, type))
          = Min(RecentLimit, Cardinality(Owned(kind, response.user)))
    /\ \A kept \in Listed(kind, type) :
          \A left \in Owned(kind, response.user) \ Listed(kind, type) :
              kept.date >= left.date

\* C8: recentTransactions consists of exactly the owner's 5 most recent
\* Income records and 5 most recent Expense records (all of them when fewer
\* than 5), each entry tagged with its collection, no record twice and no
\* other record.
C8_RecentHoldsFiveMostRecentOfEachKind ==
    IsSummary =>
        /\ \A i \in 1..Len(Recent) : Recent[i].type \in {"income", "expense"}
        /\ \A i, j \in 1..Len(Recent) : i # j => Recent[i] # Recent[j]
        /\ HoldsMostRecent(incomes, "income")
        /\ HoldsMostRecent(expenses, "expense")

\* a summary of an owner with more than 5 incomes, the one left out older
\* than a listed one, while the owner and the other user hold an expense
C8_Witness ==
    /\ IsSummary
    /\ Cardinality(Owned(incomes, response.user)) > RecentLimit
    /\ \E kept \in Listed(incomes, "income") :
          \E left \in Owned(incomes, response.user) \ Listed(incomes, "income") :
              kept.date > left.date
    /\ Owned(expenses, response.user) # {}
    /\ Owned(expenses, Other(response.user)) # {}

----------------------------------------------------------------------------
(* The end-to-end scenario *)

\* what a record says, without its id and owner
IncomeFacts(docs) == { <<doc.source, doc.amount, doc.date>> : doc \in docs }

ExpenseFacts(docs) == { <<doc.category, doc.amount, doc.date>> : doc \in docs }

\* the owner of the summary holds exactly the four records of the scenario
ScenarioStore ==
    /\ Cardinality(Owned(incomes, response.user)) = 2
    /\ IncomeFacts(Owned(incomes, response.user))
          = { <<"Salary", 5000, response.now - 1>>,
              <<"Freelance", 1500, response.now - 20>> }
    /\ Cardinality(Owned(expenses, response.user)) = 2
    /\ ExpenseFacts(Owned(expenses, response.user))
          = { <<"Rent", 1200, response.now - 2>>,
              <<"Food", 300, response.now - 35>> }

\* the label and the tag of a feed entry
LabelAndType(txn) ==
    IF txn.type = "income" THEN <<txn.source, txn.type>>
    ELSE <<txn.category, txn.type>>

\* C9: for Income {Salary 5000 day-1, Freelance 1500 day-20} and Expense
\* {Rent 1200 day-2, Food 300 day-35} with now = day-0 the summary is
\* totalIncome 6500, totalExpenses 1500, totalBalance 5000, 30-day expense
\* total 1200, 60-day income total 6500 and the feed Salary, Rent,
\* Freelance, Food.
C9_ScenarioSummary ==
    (IsSummary /\ ScenarioStore) =>
        /\ response.body.totalIncome = 6500
        /\ response.body.totalExpenses = 1500
        /\ response.body.totalBalance = 5000
        /\ response.body.last30DaysExpenses.total = 1200
        /\ response.body.last60DaysIncome.total = 6500
        /\ [i \in 1..Len(Recent) |-> LabelAndType(Recent[i])]
              = << <<"Salary", "income">>, <<"Rent", "expense">>,
                   <<"Freelance", "income">>, <<"Food", "expense">> >>

\* the summary of the scenario's store at day-0, the records added with the
\* older income and the older expense first
C9_Witness ==
    /\ IsSummary
    /\ ScenarioStore
    /\ response.now = Now0
    /\ \E i, j \in 1..Len(incomes) :
          i < j /\ incomes[i].source = "Freelance" /\ incomes[j].source = "Salary"
    /\ \E i, j \in 1..Len(expenses) :
          i < j /\ expenses[i].category = "Food" /\ expenses[j].category = "Rent"

----------------------------------------------------------------------------
(* Idempotence of the summary *)

----------------------------------------------------------------------------
(* The list handlers of incomeController.js and expenseController.js *)

\* GET /api/v1/income/get
getAllIncome(userId) ==
    /\ response' = [op |-> "getAllIncome", user |-> userId, status |-> 200,
                    body |-> SortDateDesc(FindByUser(incomes, userId))]
    /\ UNCHANGED <<incomes, expenses, nextIncomeId, nextExpenseId, now, services, form>>

\* GET /api/v1/expense/get
getAllExpense(userId) ==
    /\ response' = [op |-> "getAllExpense", user |-> userId, status |-> 200,
                    body |-> SortDateDesc(FindByUser(expenses, userId))]
    /\ UNCHANGED <<incomes, expenses, nextIncomeId, nextExpenseId, now, services, form>>

----------------------------------------------------------------------------
(* Specification of the record endpoints: add, list and delete requests of *)
(* two users and the summary.  The bodies hold two valid records of one    *)
(* date, a negative amount outside the 30-day window, and requests with a  *)
(* zero amount, without a date and with an empty label.                    *)

ListFields ==
    { [amount |-> 2, date |-> Now0 - 1],
      [amount |-> 5, date |-> Now0 - 1],
      [amount |-> -2, date |-> Now0 - ThirtyDays - 1],
      [amount |-> 0, date |-> Now0 - 1],
      [amount |-> 2, date |-> 0] }

ListIncomeBodies ==
    { [source |-> "Salary"] @@ f : f \in ListFields }
        \cup { [source |-> "", amount |-> 2, date |-> Now0 - 1] }

ListExpenseBodies ==
    { [category |-> "Rent"] @@ f : f \in ListFields }
        \cup { [category |-> "", amount |-> 2, date |-> Now0 - 1] }

ListAddsLeft == (nextIncomeId - 1) + (nextExpenseId - 1) < MaxListAdds

ListIds == 1..(MaxListAdds + 1)

ListAddIncome ==
    /\ UNCHANGED <<page, dash>>
    /\ \E u \in Users, b \in ListIncomeBodies : ListAddsLeft /\ addIncome(u, b)

ListAddExpense ==
    /\ UNCHANGED <<page, dash>>
    /\ \E u \in Users, b \in ListExpenseBodies : ListAddsLeft /\ addExpense(u, b)

ListDeleteIncome ==
    /\ UNCHANGED <<page, dash>>
    /\ \E u \in Users, id \in ListIds : deleteIncome(u, id)

ListDeleteExpense ==
    /\ UNCHANGED <<page, dash>>
    /\ \E u \in Users, id \in ListIds : deleteExpense(u, id)

ListGetAllIncome ==
    /\ UNCHANGED <<page, dash>>
    /\ \E u \in Users : getAllIncome(u)

ListGetAllExpense ==
    /\ UNCHANGED <<page, dash>>
    /\ \E u \in Users : getAllExpense(u)

ListDashboard ==
    /\ UNCHANGED <<page, dash>>
    /\ \E u \in Users : getDashboardData(u)

NextList ==
    \/ ListAddIncome
    \/ ListAddExpense
    \/ ListDeleteIncome
    \/ ListDeleteExpense
    \/ ListGetAllIncome
    \/ ListGetAllExpense
    \/ ListDashboard

SpecList == Init /\ [][NextList]_vars

----------------------------------------------------------------------------
(* Properties of the record endpoints *)

IsIncomeList == response.op = "getAllIncome"

IsExpenseList == response.op = "getAllExpense"

OwnedBy(list, userId) == \A i \in 1..Len(list) : list[i].userId = userId

\* the sum of amount over the documents of a set dated at or after a cutoff
SetSumSince(docs, cutoff) == SetSum({ doc \in docs : doc.date >= cutoff })

\* C11: every record returned to a user by the list endpoints and by the
\* summary (both window lists and recentTransactions) is owned by that user,
\* and the user's totalIncome, totalExpenses and window totals are sums over
\* the user's own records alone, whatever records the other user holds.
C11_ReadsScopedToCaller ==
    /\ (IsIncomeList \/ IsExpenseList) => OwnedBy(response.body, response.user)
    /\ IsSummary =>
          /\ OwnedBy(response.body.last30DaysExpenses.transactions, response.user)
          /\ OwnedBy(response.body.last60DaysIncome.transactions, response.user)
          /\ OwnedBy(response.body.recentTransactions, response.user)
          /\ response.body.totalIncome = SetSum(Owned(incomes, response.user))
          /\ response.body.totalExpenses = SetSum(Owned(expenses, response.user))
          /\ response.body.last30DaysExpenses.total =
                SetSumSince(Owned(expenses, response.user),
                            response.now - ThirtyDays)
          /\ response.body.last60DaysIncome.total =
                SetSumSince(Owned(incomes, response.user),
                            response.now - SixtyDays)

\* a list or a summary answered to a user who holds a record while the other
\* user holds records of both kinds inside both windows
C11_Witness ==
    /\ IsIncomeList \/ IsExpenseList \/ IsSummary
    /\ Owned(incomes, response.user) \cup Owned(expenses, response.user) # {}
    /\ \E doc \in Owned(incomes, Other(response.user)) :
          doc.date >= now - ThirtyDays
    /\ \E doc \in Owned(expenses, Other(response.user)) :
          doc.date >= now - ThirtyDays

HasId(coll, id) == \E doc \in Range(coll) : doc._id = id

HasIdOfOther(coll, id, userId) ==
    \E doc \in Range(coll) : doc._id = id /\ doc.userId # userId

\* C12: when a user asks to delete a record that another user created, the
\* delete is answered with an error and the record stays in the store; a
\* delete removes a record only when the caller is its owner.
C12_DeleteOnlyByOwner ==
    [][\A u \in Users, id \in ListIds :
          /\ (deleteIncome(u, id) /\ HasIdOfOther(incomes, id, u)) =>
                (incomes' = incomes /\ response'.status # 200)
          /\ (deleteExpense(u, id) /\ HasIdOfOther(expenses, id, u)) =>
                (expenses' = expenses /\ response'.status # 200)]_vars

LacksField(label, amount, date) == label = "" \/ amount = 0 \/ date = 0

\* the step added exactly one document to the collection, owned by userId,
\* carrying the fields of the request, and answered with that document
StoredOne(coll, collAfter, userId, label, storedLabel, body) ==
    /\ Len(collAfter) = Len(coll) + 1
    /\ Front(collAfter) = coll
    /\ Last(collAfter).userId = userId
    /\ storedLabel = label
    /\ Last(collAfter).amount = body.amount
    /\ Last(collAfter).date = body.date
    /\ \A doc \in Range(coll) : doc._id # Last(collAfter)._id
    /\ response'.status = 200
    /\ response'.body = Last(collAfter)

C15_StoredAmountsPositive ==
    \A doc \in Range(incomes) \cup Range(expenses) : doc.amount > 0

\* C16: an add request that supplies label and amount but no date is
\* answered with status 200 and stores one record whose date is the time of
\* its creation.
C16_MissingDateDefaultsToCreationTime ==
    [][/\ \A u \in Users, b \in ListIncomeBodies :
             (addIncome(u, b) /\ b.source # "" /\ b.amount # 0 /\ b.date = 0) =>
                /\ response'.status = 200
                /\ Len(incomes') = Len(incomes) + 1
                /\ Last(incomes').date = now
       /\ \A u \in Users, b \in ListExpenseBodies :
             (addExpense(u, b) /\ b.category # "" /\ b.amount # 0 /\ b.date = 0) =>
                /\ response'.status = 200
                /\ Len(expenses') = Len(expenses) + 1
                /\ Last(expenses').date = now]_vars

\* the documents of a collection a list response has to hold
ListedCollection == IF IsIncomeList THEN incomes ELSE expenses

\* the list holds all and only the user's documents of the kind, each once,
\* ordered by date descending
AllAndOnlyOwnSorted(list) ==
    /\ Range(list) = Owned(ListedCollection, response.user)
    /\ Cardinality(Range(list)) = Len(list)
    /\ \A i \in 1..(Len(list) - 1) : list[i].date >= list[i + 1].date

\* C17 as stated: a list response holds all and only the caller's records
\* of the kind, ordered by date descending, and among records of equal date
\* the more recently inserted one comes first.
C17_ListSortedNewestInsertedFirst ==
    (IsIncomeList \/ IsExpenseList) =>
        /\ AllAndOnlyOwnSorted(response.body)
        /\ \A i \in 1..(Len(response.body) - 1) :
              response.body[i].date = response.body[i + 1].date =>
                  response.body[i]._id > response.body[i + 1]._id

\* C17 amended: a list response holds all and only the caller's records of
\* the kind, each once, ordered by date descending; no order is promised
\* among records of equal date.
C17_ListAllAndOnlyOwnSortedByDate ==
    (IsIncomeList \/ IsExpenseList) => AllAndOnlyOwnSorted(response.body)

\* an income list with two records of one date and a record of an older
\* date that was inserted first
C17_Witness ==
    /\ IsIncomeList
    /\ Len(response.body) >= 3
    /\ \E i, j \in 1..Len(response.body) :
          i # j /\ response.body[i].date = response.body[j].date
    /\ \E i, j \in 1..Len(response.body) :
          i < j /\ response.body[i]._id > response.body[j]._id

----------------------------------------------------------------------------
(* middleware/authMiddleware.js.  A token is what the Authorization header *)
(* carries: none, a string jwt.verify rejects, an expired token of a user, *)
(* or a token signed for a user and still valid.                           *)

NoToken == [kind |-> "none"]

Tokens ==
    {NoToken, [kind |-> "invalid"]}
        \cup { [kind |-> "expired", id |-> u] : u \in Users }
        \cup { [kind |-> "valid", id |-> u] : u \in Users }

\* jwt.verify(token, JWT_SECRET) returns the payload
JwtVerifies(token) == token.kind = "valid"

\* res.status(401).json({ message: "Not authorized, no token" })
NoTokenResponse ==
    [next |-> FALSE, status |-> 401, message |-> "Not authorized, no token"]

\* the answer to a token that jwt.verify rejects
TokenFailedResponse ==
    [next |-> FALSE, status |-> 401, message |-> "Not authorized, token failed"]

\* a middleware that calls next() for every token that is present
protectPresentToken(token) ==
    IF token = NoToken
    THEN NoTokenResponse
    ELSE [next |-> TRUE,
          user |-> IF "id" \in DOMAIN token THEN token.id ELSE "A"]

\* protect: either next() with req.user, or the 401 response
protect(token) ==
    IF token = NoToken
    THEN NoTokenResponse
    ELSE IF ~JwtVerifies(token)
         THEN TokenFailedResponse
         ELSE [next |-> TRUE, user |-> token.id]

\* the response protect sends when it does not call next()
Refusal(op, auth) ==
    [op |-> op, status |-> auth.status, body |-> [message |-> auth.message]]

\* req.user.id as the handler reads it after next()
ReqUser(token) == protect(token).user

\* router.METHOD(path, protect, handler): handled is the handler's step for
\* the user of the token
Protected(token, op, handled) ==
    LET auth == protect(token)
    IN  IF auth.next
        THEN handled
        ELSE /\ response' = Refusal(op, auth)
             /\ UNCHANGED <<store, now, services, form>>

----------------------------------------------------------------------------
(* The Excel downloads of incomeController.js and expenseController.js.    *)
(* xlsxFiles is the set of files in the server's working directory, a file *)
(* being its name and the rows of its sheet.                               *)

\* income.map((item) => ({ Source: item.source, Amount, Date }))
IncomeRows(docs) ==
    [i \in 1..Len(docs) |->
        [Source |-> docs[i].source, Amount |-> docs[i].amount,
         Date |-> docs[i].date]]

\* expense.map((item) => ({ Source: item.category, Amount, Date }))
ExpenseRows(docs) ==
    [i \in 1..Len(docs) |->
        [Source |-> docs[i].category, Amount |-> docs[i].amount,
         Date |-> docs[i].date]]

\* xlsx.writeFile(wb, name): creates the file or replaces its content
WriteFile(files, name, rows) ==
    { f \in files : f.name # name } \cup {[name |-> name, rows |-> rows]}

\* GET /api/v1/income/downloadexcel
downloadIncomeExcel(userId) ==
    LET data == IncomeRows(SortDateDesc(FindByUser(incomes, userId)))
    IN  /\ xlsxFiles' = WriteFile(xlsxFiles, "income_details.xlsx", data)
        /\ response' = [op |-> "downloadIncomeExcel", user |-> userId,
                        status |-> 200, body |-> data]
        /\ UNCHANGED <<store, now, hfCalls, form>>

\* GET /api/v1/expense/downloadexcel
downloadExpenseExcel(userId) ==
    LET data == ExpenseRows(SortDateDesc(FindByUser(expenses, userId)))
    IN  /\ xlsxFiles' = WriteFile(xlsxFiles, "expense_details.xlsx", data)
        /\ response' = [op |-> "downloadExpenseExcel", user |-> userId,
                        status |-> 200, body |-> data]
        /\ UNCHANGED <<store, now, hfCalls, form>>

----------------------------------------------------------------------------
(* services/aiService.js and the /ai-categorize route.  A description is   *)
(* the sequence of its characters.  A score is a number of hundredths.     *)
(* What hf.zeroShotClassification does is an outcome: it throws, or it     *)
(* resolves to an array of {label, score}, to an object that may carry     *)
(* labels and scores arrays, or to null.  An undefined category or         *)
(* confidence of a result is written "" and 0.                             *)

\* result.slice(0, 3)
FirstThree(s) == SubSeq(s, 1, Min(3, Len(s)))

\* the try block of categorizeExpense: a returned value or a thrown error
Classify(outcome) ==
    IF outcome.kind = "throws"
    THEN [threw |-> TRUE, message |-> outcome.message]
    ELSE IF outcome.kind = "null"
    THEN [threw |-> TRUE, message |-> "Cannot read properties of null"]
    ELSE IF outcome.kind = "array" /\ Len(outcome.items) > 0
            /\ outcome.items[1].label # ""
    THEN [threw |-> FALSE,
          value |-> [category |-> outcome.items[1].label,
                     confidence |-> outcome.items[1].score,
                     allPredictions |->
                        [i \in 1..Len(FirstThree(outcome.items)) |->
                            [category |-> outcome.items[i].label,
                             confidence |-> outcome.items[i].score]]]]
    ELSE IF outcome.kind = "object" /\ outcome.hasLabels /\ outcome.hasScores
    THEN [threw |-> FALSE,
          value |-> [category |-> IF outcome.labels = <<>> THEN ""
                                  ELSE outcome.labels[1],
                     confidence |-> IF outcome.scores = <<>> THEN 0
                                    ELSE outcome.scores[1],
                     allPredictions |->
                        [i \in 1..Len(FirstThree(outcome.labels)) |->
                            [category |-> outcome.labels[i],
                             confidence |-> IF i <= Len(outcome.scores)
                                            THEN outcome.scores[i] ELSE 0]]]]
    ELSE [threw |-> TRUE, message |-> "Unexpected AI response structure"]

\* the service without its catch block
categorizeExpenseUncaught(outcome) == Classify(outcome)

\* exports.categorizeExpense: the catch block turns every error into the
\* fallback result
categorizeExpense(outcome) ==
    LET tried == Classify(outcome)
    IN  IF tried.threw
        THEN [threw |-> FALSE,
              value |-> [category |-> "Other", confidence |-> 0,
                         error |-> tried.message]]
        ELSE tried

\* the response of the /ai-categorize handler
aiCategorizeResponse(body, outcome) ==
    IF body.description = <<>>
    THEN [op |-> "aiCategorize", status |-> 400,
          body |-> [message |-> "Description required"]]
    ELSE LET result == categorizeExpense(outcome)
         IN  IF result.threw
             THEN [op |-> "aiCategorize", status |-> 500,
                   body |-> [message |-> "Categorization failed",
                             error |-> result.message]]
             ELSE [op |-> "aiCategorize", status |-> 200,
                   body |-> result.value]

\* the handler calls the classification service once for a description
\* that is not empty
CallsClassifier(body) == IF body.description = <<>> THEN 0 ELSE 1

\* POST /api/v1/expense/ai-categorize
aiCategorize(userId, body, outcome) ==
    /\ response' = aiCategorizeResponse(body, outcome)
    /\ hfCalls' = hfCalls + CallsClassifier(body)
    /\ UNCHANGED <<store, now, xlsxFiles, form>>

\* what the classification service may do with a request
HfOutcomes ==
    { [kind |-> "throws", message |-> "Service Unavailable"],
      [kind |-> "null"],
      [kind |-> "array", items |-> <<>>],
      [kind |-> "array", items |-> <<[label |-> "", score |-> 95]>>],
      [kind |-> "array",
       items |-> <<[label |-> "Food & Dining", score |-> 95],
                   [label |-> "Shopping", score |-> 3],
                   [label |-> "Travel", score |-> 1],
                   [label |-> "Other", score |-> 1]>>],
      [kind |-> "array", items |-> <<[label |-> "Shopping", score |-> 70]>>],
      [kind |-> "object", hasLabels |-> TRUE, hasScores |-> TRUE,
       labels |-> <<"Travel", "Other">>, scores |-> <<71, 29>>],
      [kind |-> "object", hasLabels |-> TRUE, hasScores |-> FALSE,
       labels |-> <<"Travel">>, scores |-> <<>>],
      [kind |-> "object", hasLabels |-> FALSE, hasScores |-> FALSE,
       labels |-> <<>>, scores |-> <<>>] }

----------------------------------------------------------------------------
(* Specification of the protected routes: every route of the expense, the  *)
(* income and the dashboard router, requested with every kind of token.    *)

\* the tokens the requests carry: none, a forged one, and an expired and a
\* valid one of user A
AuthTokens ==
    { NoToken, [kind |-> "invalid"], [kind |-> "expired", id |-> "A"],
      [kind |-> "valid", id |-> "A"] }

AuthIncomeBodies ==
    { [source |-> "Salary", amount |-> 2, date |-> Now0 - 1],
      [source |-> "Salary", amount |-> 0, date |-> Now0 - 1] }

AuthExpenseBodies ==
    { [category |-> "Rent", amount |-> 5, date |-> Now0 - 1],
      [category |-> "", amount |-> 5, date |-> Now0 - 1] }

AuthDescriptions == { <<>>, <<"l", "u", "n", "c", "h">> }

AuthOutcomes ==
    { [kind |-> "throws", message |-> "Service Unavailable"],
      [kind |-> "array", items |-> <<[label |-> "Food & Dining", score |-> 95]>>] }

AuthAddsLeft == (nextIncomeId - 1) + (nextExpenseId - 1) < MaxAuthAdds

AuthIds == 1..MaxAuthAdds

RouteAddIncome(token) ==
    \E b \in AuthIncomeBodies :
        Protected(token, "addIncome", addIncome(ReqUser(token), b))

RouteGetAllIncome(token) ==
    Protected(token, "getAllIncome", getAllIncome(ReqUser(token)))

RouteDownloadIncomeExcel(token) ==
    Protected(token, "downloadIncomeExcel", downloadIncomeExcel(ReqUser(token)))

RouteDeleteIncome(token) ==
    \E id \in AuthIds :
        Protected(token, "deleteIncome", deleteIncome(ReqUser(token), id))

RouteAddExpense(token) ==
    \E b \in AuthExpenseBodies :
        Protected(token, "addExpense", addExpense(ReqUser(token), b))

RouteGetAllExpense(token) ==
    Protected(token, "getAllExpense", getAllExpense(ReqUser(token)))

RouteDownloadExpenseExcel(token) ==
    Protected(token, "downloadExpenseExcel", downloadExpenseExcel(ReqUser(token)))

RouteDeleteExpense(token) ==
    \E id \in AuthIds :
        Protected(token, "deleteExpense", deleteExpense(ReqUser(token), id))

RouteAiCategorize(token) ==
    \E d \in AuthDescriptions, o \in AuthOutcomes :
        Protected(token, "aiCategorize",
                  aiCategorize(ReqUser(token), [description |-> d], o))

RouteDashboard(token) ==
    Protected(token, "dashboard", getDashboardData(ReqUser(token)))

AuthAddIncome ==
    /\ UNCHANGED <<page, dash>>
    /\ \E t \in AuthTokens : AuthAddsLeft /\ RouteAddIncome(t)

AuthGetAllIncome ==
    /\ UNCHANGED <<page, dash>>
    /\ \E t \in AuthTokens : RouteGetAllIncome(t)

AuthDownloadIncomeExcel ==
    /\ UNCHANGED <<page, dash>>
    /\ \E t \in AuthTokens : RouteDownloadIncomeExcel(t)

AuthDeleteIncome ==
    /\ UNCHANGED <<page, dash>>
    /\ \E t \in AuthTokens : RouteDeleteIncome(t)

AuthAddExpense ==
    /\ UNCHANGED <<page, dash>>
    /\ \E t \in AuthTokens : AuthAddsLeft /\ RouteAddExpense(t)

AuthGetAllExpense ==
    /\ UNCHANGED <<page, dash>>
    /\ \E t \in AuthTokens : RouteGetAllExpense(t)

AuthDownloadExpenseExcel ==
    /\ UNCHANGED <<page, dash>>
    /\ \E t \in AuthTokens : RouteDownloadExpenseExcel(t)

AuthDeleteExpense ==
    /\ UNCHANGED <<page, dash>>
    /\ \E t \in AuthTokens : RouteDeleteExpense(t)

AuthAiCategorize ==
    /\ UNCHANGED <<page, dash>>
    /\ \E t \in AuthTokens : hfCalls < MaxHfCalls /\ RouteAiCategorize(t)

AuthDashboard ==
    /\ UNCHANGED <<page, dash>>
    /\ \E t \in AuthTokens : RouteDashboard(t)

NextAuth ==
    \/ AuthAddIncome
    \/ AuthGetAllIncome
    \/ AuthDownloadIncomeExcel
    \/ AuthDeleteIncome
    \/ AuthAddExpense
    \/ AuthGetAllExpense
    \/ AuthDownloadExpenseExcel
    \/ AuthDeleteExpense
    \/ AuthAiCategorize
    \/ AuthDashboard

SpecAuth == Init /\ [][NextAuth]_vars

----------------------------------------------------------------------------
(* Properties of the protected routes *)

\* a request to some protected route carrying the token
RequestWith(token) ==
    \/ RouteAddIncome(token)
    \/ RouteGetAllIncome(token)
    \/ RouteDownloadIncomeExcel(token)
    \/ RouteDeleteIncome(token)
    \/ RouteAddExpense(token)
    \/ RouteGetAllExpense(token)
    \/ RouteDownloadExpenseExcel(token)
    \/ RouteDeleteExpense(token)
    \/ RouteAiCategorize(token)
    \/ RouteDashboard(token)

\* C18: a request to a protected route that carries no token, or an invalid
\* or expired one, is answered with status 401 and a message only, and its
\* handler does not run: the store and the server's files stay as they are
\* and the classification service is not called.
C18_NoHandlerWithoutValidToken ==
    [][\A token \in AuthTokens :
          (token.kind # "valid" /\ RequestWith(token)) =>
              /\ response'.status = 401
              /\ DOMAIN response'.body = {"message"}
              /\ UNCHANGED <<store, services>>]_vars

\* a request was refused with 401 while records of both kinds are stored, a
\* file has been written and the classification service has been called
C18_Witness ==
    /\ response.op # "none"
    /\ response.status = 401
    /\ incomes # <<>>
    /\ expenses # <<>>
    /\ xlsxFiles # {}
    /\ hfCalls > 0

----------------------------------------------------------------------------
(* The client: hooks/useAICategorization.js and AddExpenseForm.  calls is  *)
(* the sequence of categorization calls that wait for their response; a    *)
(* call keeps the expense object its handler closed over, which is the     *)
(* state of the render in which the description was changed.               *)

RECURSIVE TrimStart(_)
TrimStart(text) ==
    IF text # <<>> /\ Head(text) = " " THEN TrimStart(Tail(text)) ELSE text

RECURSIVE TrimEnd(_)
TrimEnd(text) ==
    IF text # <<>> /\ Last(text) = " " THEN TrimEnd(Front(text)) ELSE text

\* String.prototype.trim
Trim(text) == TrimEnd(TrimStart(text))

\* the guard with its trim test left out:  !description
TooShortOnlyEmpty(description) == description = <<>>

\* !description || description.trim().length < 3
TooShort(description) ==
    description = <<>> \/ Len(Trim(description)) < MinTrimmedLength

\* description.length > 5
LongEnough(description) == Len(description) > MinDescriptionLength

\* the comparison with >= in place of >
ConfidenceAtLeast(confidence) == confidence >= ConfidenceThreshold

\* result.confidence > 0.7
HighConfidence(confidence) == confidence > ConfidenceThreshold

\* what the hook's categorizeExpense returns for a reply: response.data of
\* a 2xx reply, null after the catch block
HookResult(reply) ==
    IF reply.status = 200
    THEN [isNull |-> FALSE, data |-> reply.body]
    ELSE [isNull |-> TRUE]

\* err.response?.data?.message || "Categorization failed"
ErrorMessage(reply) ==
    IF reply.status = 0 \/ reply.body.message = ""
    THEN "Categorization failed"
    ELSE reply.body.message

\* result && result.category
HasCategory(result) ==
    /\ ~result.isNull
    /\ "category" \in DOMAIN result.data
    /\ result.data.category # ""

RemoveAt(s, i) == SubSeq(s, 1, i - 1) \o SubSeq(s, i + 1, Len(s))

\* handleChange(key, value) of the current render
handleChange(key, value) ==
    /\ expense' = [expense EXCEPT ![key] = value]
    /\ UNCHANGED <<store, now, response, services,
                   suggestedCategory, loading, error, calls>>

\* handleDescriptionChange up to its await: the description is stored, and
\* a description long enough starts a categorization call unless the hook
\* returns null at once
handleDescriptionChange(description) ==
    /\ expense' = [expense EXCEPT !.description = description]
    /\ IF LongEnough(description)
       THEN IF TooShort(description)
            THEN UNCHANGED <<suggestedCategory, loading, error, calls>>
            ELSE /\ loading' = TRUE
                 /\ error' = NoError
                 /\ calls' = Append(calls, [closure |-> expense,
                                            description |-> description])
                 /\ UNCHANGED suggestedCategory
       ELSE /\ suggestedCategory' = ""
            /\ UNCHANGED <<loading, error, calls>>
    /\ UNCHANGED <<store, now, response, services>>

\* the hook with its finally block left out: loading is reset only on the
\* paths that return response.data
ResumeWithoutFinally(i, reply) ==
    LET result == HookResult(reply)
    IN  /\ loading' = IF result.isNull THEN loading ELSE FALSE
        /\ error' = IF result.isNull THEN ErrorMessage(reply) ELSE error
        /\ calls' = RemoveAt(calls, i)
        /\ IF HasCategory(result)
           THEN /\ suggestedCategory' = result.data.category
                /\ expense' =
                      IF HighConfidence(result.data.confidence)
                      THEN [calls[i].closure EXCEPT
                               !.category = result.data.category]
                      ELSE expense
           ELSE UNCHANGED <<suggestedCategory, expense>>

\* the rest of the hook and of handleDescriptionChange once call i has its
\* reply: catch and finally of the hook, then the suggestion and the
\* auto-fill through the handleChange the handler closed over
Resume(i, reply) ==
    LET result == HookResult(reply)
    IN  /\ loading' = FALSE
        /\ error' = IF result.isNull THEN ErrorMessage(reply) ELSE error
        /\ calls' = RemoveAt(calls, i)
        /\ IF HasCategory(result)
           THEN /\ suggestedCategory' = result.data.category
                /\ expense' =
                      IF HighConfidence(result.data.confidence)
                      THEN [calls[i].closure EXCEPT
                               !.category = result.data.category]
                      ELSE expense
           ELSE UNCHANGED <<suggestedCategory, expense>>

\* axiosInstance.post(AI_CATEGORIZE, { description }) of call i, served by
\* the /ai-categorize route and answered to the hook
Post(i, token, outcome) ==
    LET body == [description |-> calls[i].description]
        auth == protect(token)
        reply == IF auth.next
                 THEN aiCategorizeResponse(body, outcome)
                 ELSE Refusal("aiCategorize", auth)
    IN  /\ response' = reply
        /\ hfCalls' = hfCalls + (IF auth.next THEN CallsClassifier(body) ELSE 0)
        /\ Resume(i, reply)
        /\ UNCHANGED <<store, now, xlsxFiles>>

\* the request of call i fails without a response from the server
PostFails(i) ==
    /\ Resume(i, [status |-> 0])
    /\ UNCHANGED <<store, now, response, services>>

----------------------------------------------------------------------------
(* Specification of the expense form: the user of token A edits the        *)
(* category and the amount and changes the description to a short one, a   *)
(* long one and one that is long only by its blanks; every call is         *)
(* answered with some outcome of the classification service, with the      *)
(* refusal of an expired token, or not at all.                             *)

Repeat(c, n) == [i \in 1..n |-> c]

FormTexts ==
    { Repeat("a", MinDescriptionLength), Repeat("a", MaxDescLen),
      <<"a">> \o Repeat(" ", MaxDescLen - 1) }

FormEdits == { [key |-> "category", value |-> "Rent"],
               [key |-> "amount", value |-> "12"] }

FormTokens == { [kind |-> "valid", id |-> "A"], [kind |-> "expired", id |-> "A"] }

CallsLeft == Len(calls) + hfCalls < MaxFormCalls

FormEdit ==
    /\ UNCHANGED <<page, dash>>
    /\ \E e \in FormEdits : handleChange(e.key, e.value)

FormDescribe ==
    /\ UNCHANGED <<page, dash>>
    /\ \E text \in FormTexts :
           /\ (LongEnough(text) /\ ~TooShort(text)) => CallsLeft
           /\ handleDescriptionChange(text)

FormPost ==
    /\ UNCHANGED <<page, dash>>
    /\ \E i \in 1..Len(calls), token \in FormTokens, o \in HfOutcomes :
           Post(i, token, o)

FormPostFails ==
    /\ UNCHANGED <<page, dash>>
    /\ \E i \in 1..Len(calls) : PostFails(i)

NextForm ==
    \/ FormEdit
    \/ FormDescribe
    \/ FormPost
    \/ FormPostFails

SpecForm == Init /\ [][NextForm]_vars

----------------------------------------------------------------------------
(* Specification of the expense form with a classification service that    *)
(* may never answer. The route awaits categorizeExpense, which awaits      *)
(* hf.zeroShotClassification without any timer, so the server sends no     *)
(* response; the client's axios instance is created with timeout: 10000    *)
(* and rejects the request when that timer expires, which the hook's catch *)
(* block handles like any failure without a response. Every request of the *)
(* client therefore ends, by an answer or by the timer: the fairness       *)
(* condition on LiveFinish.                                                *)

\* call i reached the service, which never answers; the axios timer of the
\* request expires
PostTimesOut(i) ==
    /\ hfCalls' = hfCalls + 1
    /\ Resume(i, [status |-> 0])
    /\ UNCHANGED <<store, now, response, xlsxFiles>>

LiveToken == [kind |-> "valid", id |-> "A"]

LiveCallsLeft == Len(calls) + hfCalls < MaxLiveCalls

LiveEdit ==
    /\ UNCHANGED <<page, dash>>
    /\ \E e \in FormEdits : handleChange(e.key, e.value)

LiveDescribe ==
    /\ UNCHANGED <<page, dash>>
    /\ \E text \in FormTexts :
           /\ (LongEnough(text) /\ ~TooShort(text)) => LiveCallsLeft
           /\ handleDescriptionChange(text)

LivePost ==
    /\ UNCHANGED <<page, dash>>
    /\ \E i \in 1..Len(calls), o \in AuthOutcomes : Post(i, LiveToken, o)

LivePostTimesOut ==
    /\ UNCHANGED <<page, dash>>
    /\ \E i \in 1..Len(calls) : PostTimesOut(i)

LiveFinish == LivePost \/ LivePostTimesOut

NextFormLive ==
    \/ LiveEdit
    \/ LiveDescribe
    \/ LivePost
    \/ LivePostTimesOut

SpecFormLive == Init /\ [][NextFormLive]_vars /\ WF_vars(LiveFinish)

----------------------------------------------------------------------------
(* The Income and Expense pages of the client (Income.jsx, Expense.jsx).   *)
(* The two pages have the same handlers; kind tells them apart. A text     *)
(* typed into the label field is a record of the string and of its         *)
(* characters, an amount is the sequence of the characters typed, a date   *)
(* is a day number or 0 for an empty date field.                           *)
(*                                                                         *)
(* A request in flight keeps what its handler closed over: the loading     *)
(* flag of the render in which the handler was created, which is the value *)
(* fetchIncomeDetails / fetchExpenseDetails of that render will test when  *)
(* the handler calls it after its await.                                   *)

DigitValue ==
    ("0" :> 0) @@ ("1" :> 1) @@ ("2" :> 2) @@ ("3" :> 3) @@ ("4" :> 4) @@
    ("5" :> 5) @@ ("6" :> 6) @@ ("7" :> 7) @@ ("8" :> 8) @@ ("9" :> 9)

AllDigits(chars) == \A i \in 1..Len(chars) : chars[i] \in DOMAIN DigitValue

RECURSIVE DigitsToNumber(_)
DigitsToNumber(chars) ==
    IF chars = <<>> THEN 0
    ELSE 10 * DigitsToNumber(Front(chars)) + DigitValue[Last(chars)]

\* Number(amount) of a string: 0 for the empty string, the value of a
\* decimal integer with an optional sign, NaN for anything else
ToNumber(chars) ==
    IF chars = <<>> THEN [nan |-> FALSE, value |-> 0]
    ELSE IF AllDigits(chars)
         THEN [nan |-> FALSE, value |-> DigitsToNumber(chars)]
         ELSE IF Head(chars) = "-" /\ Len(chars) > 1 /\ AllDigits(Tail(chars))
              THEN [nan |-> FALSE, value |-> 0 - DigitsToNumber(Tail(chars))]
              ELSE [nan |-> TRUE]

\* !amount || isNaN(amount) || Number(amount) <= 0
InvalidAmount(amount) ==
    \/ amount = <<>>
    \/ ToNumber(amount).nan
    \/ ToNumber(amount).value <= 0

LabelRequired(kind) ==
    IF kind = "income" THEN "Source is required." ELSE "Category is required."

AmountInvalid == "Amount should be a valid number greater than 0."

DateRequired == "Date is required."

AddedSuccessfully(kind) ==
    IF kind = "income" THEN "Income added successfully"
    ELSE "Expense added successfully"

\* the request body of axiosInstance.post(ADD_INCOME / ADD_EXPENSE, ...) as
\* the controller reads it; the amount string is cast to the Number of the
\* schema
AddBody(kind, input) ==
    IF kind = "income"
    THEN [source |-> input.label.text, amount |-> ToNumber(input.amount).value,
          date |-> input.date]
    ELSE [category |-> input.label.text, amount |-> ToNumber(input.amount).value,
          date |-> input.date]

\* the GET request a call of fetchIncomeDetails / fetchExpenseDetails sends
FetchRequest(kind) == [kind |-> kind, type |-> "fetch"]

\* fetchIncomeDetails / fetchExpenseDetails up to its await, called from a
\* render whose loading flag is closureLoading: the page and the requests
\* after the call
fetchDetails(kind, closureLoading, pgs, reqs) ==
    IF closureLoading
    THEN [pages |-> pgs, requests |-> reqs]
    ELSE [pages |-> [pgs EXCEPT ![kind].loading = TRUE],
          requests |-> Append(reqs, FetchRequest(kind))]

\* useEffect(() => { fetchIncomeDetails() }, []) of the first render
Mount(kind) ==
    /\ ~pages[kind].mounted
    /\ LET called == fetchDetails(kind, pages[kind].loading,
                                  [pages EXCEPT ![kind].mounted = TRUE], requests)
       IN  /\ pages' = called.pages
           /\ requests' = called.requests
    /\ UNCHANGED <<store, now, response, services, form, toast, dash>>

\* setOpenAddIncomeModal(true) / setOpenAddExpenseModal(true)
OpenAddModal(kind) ==
    /\ pages[kind].mounted
    /\ pages' = [pages EXCEPT ![kind].openAddModal = TRUE]
    /\ UNCHANGED <<store, now, response, services, form, toast, requests, dash>>

\* handleAddIncome / handleAddExpense up to its await
handleAdd(kind, input) ==
    /\ pages[kind].mounted
    /\ pages[kind].openAddModal
    /\ IF Trim(input.label.chars) = <<>>
       THEN /\ toast' = LabelRequired(kind)
            /\ UNCHANGED requests
       ELSE IF InvalidAmount(input.amount)
            THEN /\ toast' = AmountInvalid
                 /\ UNCHANGED requests
            ELSE /\ toast' = IF input.date = 0 THEN DateRequired ELSE toast
                 /\ requests' = Append(requests,
                                       [kind |-> kind, type |-> "add",
                                        body |-> AddBody(kind, input),
                                        loading |-> pages[kind].loading])
    /\ UNCHANGED <<store, now, response, services, form, pages, dash>>

handleAddIncome(input) == handleAdd("income", input)

handleAddExpense(input) == handleAdd("expense", input)

\* the add request j is served by its route and answered; on a 2xx answer
\* the handler closes the modal, shows the toast and calls the
\* fetchIncomeDetails / fetchExpenseDetails it closed over; otherwise its
\* catch block logs the error
AddAnswered(j, token) ==
    LET req == requests[j]
    IN  /\ req.type = "add"
        /\ IF req.kind = "income"
           THEN Protected(token, "addIncome", addIncome(ReqUser(token), req.body))
           ELSE Protected(token, "addExpense", addExpense(ReqUser(token), req.body))
        /\ IF response'.status = 200
           THEN LET called == fetchDetails(req.kind, req.loading,
                                  [pages EXCEPT ![req.kind].openAddModal = FALSE],
                                  RemoveAt(requests, j))
                IN  /\ pages' = called.pages
                    /\ requests' = called.requests
                    /\ toast' = AddedSuccessfully(req.kind)
           ELSE /\ requests' = RemoveAt(requests, j)
                /\ UNCHANGED <<pages, toast>>
        /\ UNCHANGED dash

\* the fetch request j is served by its route and answered: the list is
\* stored on a 2xx answer, and loading is reset in the finally block
FetchAnswered(j, token) ==
    LET req == requests[j]
    IN  /\ req.type = "fetch"
        /\ IF req.kind = "income"
           THEN Protected(token, "getAllIncome", getAllIncome(ReqUser(token)))
           ELSE Protected(token, "getAllExpense", getAllExpense(ReqUser(token)))
        /\ pages' = [pages EXCEPT
                        ![req.kind].data =
                            IF response'.status = 200 THEN response'.body ELSE @,
                        ![req.kind].loading = FALSE]
        /\ requests' = RemoveAt(requests, j)
        /\ UNCHANGED <<toast, dash>>

\* request j fails without a response of the server: the catch block of its
\* handler logs the error, a fetch resets loading in its finally block
RequestFails(j) ==
    LET req == requests[j]
    IN  /\ pages' = IF req.type = "fetch"
                    THEN [pages EXCEPT ![req.kind].loading = FALSE]
                    ELSE pages
        /\ requests' = RemoveAt(requests, j)
        /\ UNCHANGED <<store, now, response, services, form, toast, dash>>

----------------------------------------------------------------------------
(* Specification of the pages: the user of token A opens the pages, opens  *)
(* the add forms and submits them with complete and with incomplete input, *)
(* also a second time before the first request is answered; every request  *)
(* is answered by its route or fails without an answer.                    *)

PageToken == [kind |-> "valid", id |-> "A"]

Rent == [text |-> "Rent", chars |-> <<"R", "e", "n", "t">>]

Blank == [text |-> " ", chars |-> <<" ">>]

PageInputs ==
    { [label |-> Rent, amount |-> <<"1", "2">>, date |-> Now0 - 1],
      [label |-> Blank, amount |-> <<"1", "2">>, date |-> Now0 - 1],
      [label |-> Rent, amount |-> <<>>, date |-> Now0 - 1],
      [label |-> Rent, amount |-> <<"a">>, date |-> Now0 - 1],
      [label |-> Rent, amount |-> <<"0">>, date |-> Now0 - 1],
      [label |-> Rent, amount |-> <<"-", "5">>, date |-> Now0 - 1],
      [label |-> Rent, amount |-> <<"1", "2">>, date |-> 0] }

AddRequests == { j \in 1..Len(requests) : requests[j].type = "add" }

PageAddsLeft ==
    (nextIncomeId - 1) + (nextExpenseId - 1) + Cardinality(AddRequests)
        < MaxPageAdds

PageMount ==
    /\ \E kind \in Kinds : Mount(kind)

PageOpenAddModal ==
    /\ \E kind \in Kinds : OpenAddModal(kind)

PageAddIncome ==
    /\ \E input \in PageInputs : PageAddsLeft /\ handleAddIncome(input)

PageAddExpense ==
    /\ \E input \in PageInputs : PageAddsLeft /\ handleAddExpense(input)

PageAddAnswered ==
    /\ \E j \in 1..Len(requests) : AddAnswered(j, PageToken)

PageFetchAnswered ==
    /\ \E j \in 1..Len(requests) : FetchAnswered(j, PageToken)

PageRequestFails ==
    /\ \E j \in 1..Len(requests) : RequestFails(j)

NextPage ==
    \/ PageMount
    \/ PageOpenAddModal
    \/ PageAddIncome
    \/ PageAddExpense
    \/ PageAddAnswered
    \/ PageFetchAnswered
    \/ PageRequestFails

SpecPage == Init /\ [][NextPage]_vars

----------------------------------------------------------------------------
(* Properties of the categorization *)

\* the classification service threw, or resolved to a value that is neither
\* a non-empty array whose first element has a label nor an object with
\* both a labels and a scores array
ServiceFailed(outcome) ==
    \/ outcome.kind \in {"throws", "null"}
    \/ outcome.kind = "array"
          /\ (outcome.items = <<>> \/ outcome.items[1].label = "")
    \/ outcome.kind = "object" /\ ~(outcome.hasLabels /\ outcome.hasScores)

\* the route has reached the classification service in this step
ClassifierCalled == hfCalls' = hfCalls + 1

\* C19: categorizeExpense throws for no outcome of the classification
\* service, and returns category "Other" with confidence 0 when the service
\* threw or resolved to neither expected shape; hence every request of
\* /ai-categorize that reaches the service (its description is not empty) is
\* answered with status 200 and a result carrying category and confidence,
\* never with status 500.
C19_ClassifierFailureYieldsFallback ==
    [][ClassifierCalled =>
          /\ \A o \in HfOutcomes :
                /\ ~categorizeExpense(o).threw
                /\ ServiceFailed(o) =>
                      /\ categorizeExpense(o).value.category = "Other"
                      /\ categorizeExpense(o).value.confidence = 0
          /\ response'.op = "aiCategorize"
          /\ response'.status = 200
          /\ {"category", "confidence"} \subseteq DOMAIN response'.body]_vars

\* the route answered a call of the form with the fallback result
C19_Witness ==
    /\ response.op = "aiCategorize"
    /\ response.status = 200
    /\ response.body.category = "Other"
    /\ response.body.confidence = 0
    /\ "error" \in DOMAIN response.body
    /\ hfCalls > 0

\* the reply carries a result whose confidence is above 0.7
ConfidentReply(reply) ==
    /\ reply.status = 200
    /\ "confidence" \in DOMAIN reply.body
    /\ reply.body.confidence > ConfidenceThreshold

\* a categorization call of the form got its answer, or failed, in this
\* step
CallResumed == Len(calls') < Len(calls)

\* C20: when a categorization call of the form is resumed, the category
\* field changes only if the step's reply carries a result of confidence
\* above 0.7, and then to that result's category; a result of confidence 0.7
\* or less, the fallback, and a null result (a refused or failed request)
\* leave the category field as it was.
C20_AutoFillOnlyAboveThreshold ==
    [][CallResumed =>
          /\ expense'.category # expense.category =>
                /\ ClassifierCalled
                /\ ConfidentReply(response')
                /\ expense'.category = response'.body.category
          /\ (~ClassifierCalled \/ ~ConfidentReply(response')) =>
                expense'.category = expense.category]_vars

\* a result of confidence exactly 0.7 was answered and suggested while the
\* category field holds what the user entered
C20_Witness ==
    /\ response.op = "aiCategorize"
    /\ response.status = 200
    /\ response.body.confidence = ConfidenceThreshold
    /\ suggestedCategory = response.body.category
    /\ expense.category = "Rent"
    /\ calls = <<>>
    /\ ~loading

\* a change of the description started a categorization call in this step
CallStarted == Len(calls') > Len(calls)

\* C21: every categorization request the form sends, and so every
\* description the route hands to the classification service on a path from
\* the form, has a trimmed length of at least 3; a change to an empty
\* description or to one of trimmed length below 3 starts no request and
\* reaches no service.
C21_NoRequestForShortDescription ==
    [][/\ CallStarted =>
             /\ Last(calls').description # <<>>
             /\ Len(Trim(Last(calls').description)) >= MinTrimmedLength
       /\ \A i \in 1..Len(calls') :
             Len(Trim(calls'[i].description)) >= MinTrimmedLength
       /\ (~CallResumed
             /\ expense'.description # expense.description
             /\ Len(Trim(expense'.description)) < MinTrimmedLength) =>
                (calls' = calls /\ hfCalls' = hfCalls)]_vars

\* the description was changed to one of more than 5 characters whose
\* trimmed length is below 3, and no call is in flight or was ever served
C21_Witness ==
    /\ Len(expense.description) > MinDescriptionLength
    /\ Len(Trim(expense.description)) < MinTrimmedLength
    /\ calls = <<>>
    /\ hfCalls = 0

\* C22 as stated: a call whose service never answers is answered with the
\* fallback result (category "Other", confidence 0), and every call
\* finishes with loading back at false.
C22_SilentServiceYieldsFallback ==
    /\ [][LivePostTimesOut =>
             /\ response'.op = "aiCategorize"
             /\ response'.status = 200
             /\ response'.body.category = "Other"
             /\ response'.body.confidence = 0]_vars
    /\ (loading \/ calls # <<>>) ~> (~loading /\ calls = <<>>)

\* C22: a call whose service never answers is ended by the timer of the
\* client's request: the server sends nothing, the hook returns null, sets
\* error to "Categorization failed" and resets loading, the suggestion and
\* the form fields stay as they are; every call started eventually ends and
\* loading eventually returns to false.
C22_EveryCallEndsTimeoutYieldsNull ==
    /\ [][LivePostTimesOut =>
             /\ error' = "Categorization failed"
             /\ ~loading'
             /\ UNCHANGED <<suggestedCategory, expense>>]_vars
    /\ (loading \/ calls # <<>>) ~> (~loading /\ calls = <<>>)

\* a call reached the service, was never answered and has ended
C22_Witness ==
    /\ hfCalls > 0
    /\ response.op = "none"
    /\ calls = <<>>
    /\ ~loading
    /\ error = "Categorization failed"

----------------------------------------------------------------------------
(* getDashboardData with its reads taken one at a time. The handler awaits *)
(* six queries one after the other, without a transaction or a session, so *)
(* the store can serve an add or a delete between two of them. dash holds  *)
(* the request that is between its reads: the number of reads done (pc),   *)
(* the user, and the result of each read. dash.seen is a history of the    *)
(* request: the user's records in every state the store has had since the  *)
(* first read.                                                             *)

\* the response with the totals added in totalBalance
SummaryOfReadsBalanceAdded(reads) ==
    [totalBalance |-> TotalBalanceAdded(reads.totalIncome, reads.totalExpense),
     totalIncome |-> TotalOrZero(reads.totalIncome),
     totalExpenses |-> TotalOrZero(reads.totalExpense),
     last30DaysExpenses |->
         [total |-> ReduceAmount(reads.last30DaysExpenseTransactions, 0),
          transactions |-> reads.last30DaysExpenseTransactions],
     last60DaysIncome |->
         [total |-> ReduceAmount(reads.last60DaysIncomeTransactions, 0),
          transactions |-> reads.last60DaysIncomeTransactions],
     recentTransactions |->
         ArraySort(TagType(reads.recentIncome, "income")
                   \o TagType(reads.recentExpense, "expense"))]

\* the res.json({...}) of getDashboardData over the results of the reads
SummaryOfReads(reads) ==
    [totalBalance |-> TotalBalance(reads.totalIncome, reads.totalExpense),
     totalIncome |-> TotalOrZero(reads.totalIncome),
     totalExpenses |-> TotalOrZero(reads.totalExpense),
     last30DaysExpenses |->
         [total |-> ReduceAmount(reads.last30DaysExpenseTransactions, 0),
          transactions |-> reads.last30DaysExpenseTransactions],
     last60DaysIncome |->
         [total |-> ReduceAmount(reads.last60DaysIncomeTransactions, 0),
          transactions |-> reads.last60DaysIncomeTransactions],
     recentTransactions |->
         ArraySort(TagType(reads.recentIncome, "income")
                   \o TagType(reads.recentExpense, "expense"))]

\* the first await: Income.aggregate
ReadTotalIncome(userId) ==
    /\ dash.pc = 0
    /\ dash' = [pc |-> 1, user |-> userId,
                totalIncome |-> Aggregate(incomes, userId),
                seen |-> {<<FindByUser(incomes, userId),
                            FindByUser(expenses, userId)>>}]

\* the await that follows the reads done so far
ReadNext ==
    LET userId == dash.user
    IN  /\ dash.pc \in 1..4
        /\ dash' =
             [pc |-> dash.pc + 1] @@
             (CASE dash.pc = 1 ->
                     [totalExpense |-> Aggregate(expenses, userId)]
                [] dash.pc = 2 ->
                     [last60DaysIncomeTransactions |->
                         SortDateDesc(FindByUserSince(incomes, userId, IncomeCutoff))]
                [] dash.pc = 3 ->
                     [last30DaysExpenseTransactions |->
                         SortDateDesc(FindByUserSince(expenses, userId, ExpenseCutoff))]
                [] dash.pc = 4 ->
                     [recentIncome |-> LastFive(incomes, userId)]) @@
             dash

\* the sixth await and the response
ReadRecentExpenseAndRespond ==
    /\ dash.pc = 5
    /\ response' =
          [op |-> "dashboard", user |-> dash.user, now |-> now, status |-> 200,
           body |-> SummaryOfReads([recentExpense |-> LastFive(expenses, dash.user)]
                                   @@ dash)]
    /\ dash' = NoDashboard

\* the store changed while a request is between its reads
Observed ==
    IF dash.pc = 0
    THEN dash' = dash
    ELSE \E userId \in {dash.user} :
            dash' = [dash EXCEPT
                        !.seen = @ \cup {<<FindByUser(incomes', userId),
                                           FindByUser(expenses', userId)>>}]

----------------------------------------------------------------------------
(* Specification of the summary under interleaving: adds and deletes of    *)
(* both users are served between the reads of a summary request.           *)

DashFields ==
    { [amount |-> 2, date |-> Now0 - 1], [amount |-> 5, date |-> Now0 - (ThirtyDays + 1)] }

DashAddsLeft == (nextIncomeId - 1) + (nextExpenseId - 1) < MaxDashAdds

DashIds == 1..MaxDashAdds

DashAddIncome ==
    /\ \E u \in Users, f \in DashFields :
          /\ DashAddsLeft
          /\ addIncome(u, [source |-> "Salary"] @@ f)
    /\ Observed
    /\ UNCHANGED page

DashAddExpense ==
    /\ \E u \in Users, f \in DashFields :
          /\ DashAddsLeft
          /\ addExpense(u, [category |-> "Rent"] @@ f)
    /\ Observed
    /\ UNCHANGED page

DashDeleteIncome ==
    /\ \E u \in Users, id \in DashIds : deleteIncome(u, id)
    /\ Observed
    /\ UNCHANGED page

DashDeleteExpense ==
    /\ \E u \in Users, id \in DashIds : deleteExpense(u, id)
    /\ Observed
    /\ UNCHANGED page

DashReadTotalIncome ==
    /\ \E u \in Users : ReadTotalIncome(u)
    /\ UNCHANGED <<store, now, response, services, form, page>>

DashReadNext ==
    /\ ReadNext
    /\ UNCHANGED <<store, now, response, services, form, page>>

DashRespond ==
    /\ ReadRecentExpenseAndRespond
    /\ UNCHANGED <<store, now, services, form, page>>

NextDash ==
    \/ DashAddIncome
    \/ DashAddExpense
    \/ DashDeleteIncome
    \/ DashDeleteExpense
    \/ DashReadTotalIncome
    \/ DashReadNext
    \/ DashRespond

SpecDash == Init /\ [][NextDash]_vars

----------------------------------------------------------------------------
(* Properties of the pages *)

\* an add request was put in flight in this step
AddRequestSent ==
    /\ Len(requests') = Len(requests) + 1
    /\ Last(requests').type = "add"

\* a call of an add handler whose input fails one of the three validations
InvalidInputSubmitted ==
    \E kind \in Kinds, input \in PageInputs :
        /\ handleAdd(kind, input)
        /\ \/ Trim(input.label.chars) = <<>>
           \/ InvalidAmount(input.amount)
           \/ input.date = 0

\* C23: handleAddExpense and handleAddIncome send the POST add request only
\* when the label is not empty after trimming, the amount is a number
\* greater than 0 and the date is given; when one of the three fails, an
\* error toast is shown and no request is sent.
C23_AddRequestOnlyForValidInput ==
    [][InvalidInputSubmitted =>
          /\ toast' \in {LabelRequired("income"), LabelRequired("expense"),
                         AmountInvalid, DateRequired}
          /\ ~AddRequestSent]_vars

\* the list fetches of a page that are in flight
FetchesInFlight(kind) ==
    { j \in 1..Len(requests) :
        requests[j].type = "fetch" /\ requests[j].kind = kind }

\* C24: on the Income and on the Expense page at most one list fetch is in
\* flight at a time, and the page's loading flag is false when none is.
C24_AtMostOneFetchInFlight ==
    \A kind \in Kinds :
        /\ Cardinality(FetchesInFlight(kind)) <= 1
        /\ FetchesInFlight(kind) = {} => ~pages[kind].loading

----------------------------------------------------------------------------
(* Properties of the summary under interleaving *)

\* a summary request whose reads were taken one at a time answers in this
\* step
Responds == dash.pc = 5 /\ dash'.pc = 0

\* the summary of a user whose records are those of a snapshot
SummaryOfStore(snapshot, userId) ==
    SummaryOfReads(
        [totalIncome |-> Aggregate(snapshot[1], userId),
         totalExpense |-> Aggregate(snapshot[2], userId),
         last60DaysIncomeTransactions |->
             SortDateDesc(FindByUserSince(snapshot[1], userId, IncomeCutoff)),
         last30DaysExpenseTransactions |->
             SortDateDesc(FindByUserSince(snapshot[2], userId, ExpenseCutoff)),
         recentIncome |-> LastFive(snapshot[1], userId),
         recentExpense |-> LastFive(snapshot[2], userId)])

\* the summaries of the states the store has had during the request
SummariesSeen == { SummaryOfStore(snapshot, dash.user) : snapshot \in dash.seen }

\* C25 as stated: a summary whose reads are interleaved with adds and
\* deletes is the summary of one single state the store has had during the
\* request.
C25_SummaryOfOneStoreState ==
    [][Responds => response'.body \in SummariesSeen]_vars

\* the entries of a list of tagged transactions that carry a given tag
TaggedEntries(txns, type) == SelectSeq(txns, LAMBDA txn : txn.type = type)

\* C25: each field of a summary whose reads are interleaved with adds and
\* deletes is that field of the summary of some state the store has had
\* during the request, the two kinds of recentTransactions taken apart, and
\* totalBalance is the difference of the two totals returned; the fields
\* need not come from the same state. When the owner's records were the
\* same in every state the store has had during the request, the response
\* is the summary of these records, the one the handler computes in one
\* piece.
C25_EachFieldOfSomeStoreState ==
    [][Responds =>
          LET body == response'.body
              seen == SummariesSeen
          IN  /\ \E b \in seen : body.totalIncome = b.totalIncome
              /\ \E b \in seen : body.totalExpenses = b.totalExpenses
              /\ body.totalBalance = body.totalIncome - body.totalExpenses
              /\ \E b \in seen : body.last60DaysIncome = b.last60DaysIncome
              /\ \E b \in seen : body.last30DaysExpenses = b.last30DaysExpenses
              /\ \E b \in seen :
                    TaggedEntries(body.recentTransactions, "income")
                        = TaggedEntries(b.recentTransactions, "income")
              /\ \E b \in seen :
                    TaggedEntries(body.recentTransactions, "expense")
                        = TaggedEntries(b.recentTransactions, "expense")
              /\ Cardinality(dash.seen) = 1 =>
                    /\ body \in seen
                    /\ body = DashboardBody(dash.user)]_vars

\* a summary was answered whose totalExpenses leaves out an expense that its
\* 30-day list holds: the expense was added between the two reads
C25_Witness ==
    /\ response.op = "dashboard"
    /\ dash.pc = 0
    /\ response.body.totalExpenses = 0
    /\ response.body.last30DaysExpenses.transactions # <<>>
    /\ response.body.totalBalance = response.body.totalIncome

----------------------------------------------------------------------------
(* Properties of the feed across both kinds *)

\* the owner's records of both kinds
OwnedOfBothKinds ==
    Owned(incomes, response.user) \cup Owned(expenses, response.user)

\* a date is the i-th most recent date of a set of records: fewer than i
\* records are newer, and at least i records are as new
IsIthMostRecentDate(date, i, docs) ==
    /\ Cardinality({ doc \in docs : doc.date > date }) < i
    /\ Cardinality({ doc \in docs : doc.date >= date }) >= i

\* C26: the first min(5, n) entries of recentTransactions, n being the
\* owner's number of records of both kinds, carry the dates of the owner's
\* min(5, n) most recent records across both kinds, in descending order.
C26_FirstFiveAreGloballyMostRecent ==
    IsSummary =>
        /\ Len(Recent) >= Min(RecentLimit, Cardinality(OwnedOfBothKinds))
        /\ \A i \in 1..Min(RecentLimit, Cardinality(OwnedOfBothKinds)) :
              IsIthMostRecentDate(Recent[i].date, i, OwnedOfBothKinds)

\* a summary of an owner with more than 5 incomes and with expenses, whose
\* first five entries are of both kinds and leave out an older income that
\* the feed lists further down
C26_Witness ==
    /\ IsSummary
    /\ Cardinality(Owned(incomes, response.user)) > RecentLimit
    /\ Len(Recent) > RecentLimit
    /\ \E i \in 1..RecentLimit : Recent[i].type = "expense"
    /\ \E i \in 1..RecentLimit : Recent[i].type = "income"
    /\ \E i \in (RecentLimit + 1)..Len(Recent) :
          Recent[i].type = "income" /\ Recent[i].date < Recent[1].date

----------------------------------------------------------------------------
(* Properties of an add followed by its delete *)

\* the lists and the summary of a user over given collections
Views(incs, exps, userId) ==
    [incomeList |-> SortDateDesc(FindByUser(incs, userId)),
     expenseList |-> SortDateDesc(FindByUser(exps, userId)),
     summary |-> SummaryOfStore(<<incs, exps>>, userId)]

\* the last response is that of a successful add of the given kind, and this
\* step serves the delete of the id it returned
DeletesIncomeJustAdded ==
    /\ response.op = "addIncome"
    /\ response.status = 200
    /\ \E u \in Users : deleteIncome(u, response.body._id)

DeletesExpenseJustAdded ==
    /\ response.op = "addExpense"
    /\ response.status = 200
    /\ \E u \in Users : deleteExpense(u, response.body._id)

\* C27: a delete by the id an add returned removes the record the add
\* stored and nothing else, so that the collections, and with them every
\* list and every summary field of every user for the same now, are those
\* from before the add.
C27_AddThenDeleteRestoresStore ==
    [][/\ DeletesIncomeJustAdded =>
             /\ Last(incomes) = response.body
             /\ incomes' = Front(incomes)
             /\ expenses' = expenses
             /\ \A u \in Users :
                   Views(incomes', expenses', u) = Views(Front(incomes), expenses, u)
       /\ DeletesExpenseJustAdded =>
             /\ Last(expenses) = response.body
             /\ expenses' = Front(expenses)
             /\ incomes' = incomes
             /\ \A u \in Users :
                   Views(incomes', expenses', u) = Views(incomes, Front(expenses), u)]_vars

\* the income added last has been deleted by its id, while older incomes
\* and expenses of both users are in the store
C27_Witness ==
    /\ response.op = "deleteIncome"
    /\ nextIncomeId > 1
    /\ \A i \in 1..Len(incomes) : incomes[i]._id < nextIncomeId - 1
    /\ Owned(incomes, "A") # {}
    /\ Owned(expenses, "B") # {}

----------------------------------------------------------------------------
(* Properties of the expense form under overlapping calls *)

\* the continuation of a call wrote the form fields in this step
AutoFilled == CallResumed /\ expense' # expense

\* C28: when the response of a categorization call triggers the auto-fill,
\* only the category of the form changes; description, amount, date and
\* icon keep the values entered last.
C28_AutoFillChangesOnlyCategory ==
    [][AutoFilled =>
          /\ expense'.description = expense.description
          /\ expense'.amount = expense.amount
          /\ expense'.date = expense.date
          /\ expense'.icon = expense.icon]_vars

\* C29: once no categorization call is in flight, the suggestion shown is
\* empty when the description has 5 characters or fewer.
C29_NoSuggestionForShortDescription ==
    (calls = <<>> /\ ~LongEnough(expense.description)) => suggestedCategory = ""

\* C30: the loading flag of the hook is true exactly when at least one
\* categorization call is in flight.
C30_LoadingIffCallInFlight == loading <=> calls # <<>>

====
